---- MODULE Spec2Model ----
(***************************************************************************)
(* Reliable transport over UDP: the sliding-window sender (client.py),     *)
(* the cumulative-ACK receiver (server.py) and the congestion controller   *)
(* (protocol.py), connected by two datagram channels that may lose,        *)
(* reorder and duplicate packets.                                          *)
(***************************************************************************)
EXTENDS Integers, Sequences, FiniteSets, TLC

(***************************************************************************)
(* Protocol constants (protocol.py:11-19, server.py:37, client.py:47).     *)
(***************************************************************************)
MAX_PACKET_SIZE == 1024
HEADER_SIZE == 14
MAX_PAYLOAD_SIZE == MAX_PACKET_SIZE - HEADER_SIZE
MAX_RETRIES == 10
INITIAL_WINDOW_SIZE == 4
INITIAL_SSTHRESH == 64
MAX_WINDOW_SIZE == 128
max_window_size == 64
buffer_capacity == max_window_size * MAX_PAYLOAD_SIZE
ClientWindow == 64

(***************************************************************************)
(* Bounds of the model.                                                    *)
(***************************************************************************)
\* largest number of full segments of a file handed to send_file
MaxFileSegs == 2
\* number of full segments of the synthetic stream handed to send_synthetic_data
MaxSynSegs == 4
\* datagrams a channel holds at once; a datagram sent to a full channel is lost
MaxChan == 2
\* deliveries that leave the datagram in the channel (duplications) per run
MaxDup == 1
\* receive timeouts of the sender per run, where a specification bounds them
MaxTimeouts == 1

(***************************************************************************)
(* Natural numbers of any size: the sequence of their digits in base       *)
(* BigBase, least significant first, with no leading zero digit (0 is the  *)
(* empty sequence). They carry the numerator and the denominator of cwnd,  *)
(* which cwnd += 1 / cwnd roughly squares at every step.                   *)
(***************************************************************************)
BigBase == 10000

\* the element of a one-element set: {e(x) : x \in {a}} computes a once
The(S) == CHOOSE r \in S : TRUE

RECURSIVE Big(_)
Big(i) == IF i = 0 THEN <<>> ELSE <<i % BigBase>> \o Big(i \div BigBase)

Digit(a, i) == IF i <= Len(a) THEN a[i] ELSE 0

\* the digits 1..n of a without leading zero digits
RECURSIVE BigTrimTo(_, _)
BigTrimTo(a, n) ==
    IF n = 0 THEN <<>>
    ELSE IF a[n] # 0 THEN SubSeq(a, 1, n)
    ELSE BigTrimTo(a, n - 1)

BigTrim(a) == The({BigTrimTo(x, Len(x)) : x \in {a}})

\* the digits of a + b from digit i on
RECURSIVE BigAddFrom(_, _, _, _)
BigAddFrom(a, b, i, carry) ==
    IF i > Len(a) /\ i > Len(b)
    THEN IF carry = 0 THEN <<>> ELSE <<carry>>
    ELSE <<(Digit(a, i) + Digit(b, i) + carry) % BigBase>>
           \o BigAddFrom(a, b, i + 1,
                         (Digit(a, i) + Digit(b, i) + carry) \div BigBase)

BigAdd(a, b) == The({BigAddFrom(x, y, 1, 0) : x \in {a}, y \in {b}})

\* a < b for numbers of the same length, from digit i down
RECURSIVE BigLessFrom(_, _, _)
BigLessFrom(a, b, i) ==
    IF i = 0 THEN FALSE
    ELSE IF a[i] # b[i] THEN a[i] < b[i]
    ELSE BigLessFrom(a, b, i - 1)

BigLess(a, b) ==
    \E x \in {a}, y \in {b} :
       IF Len(x) # Len(y) THEN Len(x) < Len(y)
       ELSE BigLessFrom(x, y, Len(x))

\* the digits of a - b from digit i on, for a >= b
RECURSIVE BigSubFrom(_, _, _, _)
BigSubFrom(a, b, i, borrow) ==
    IF i > Len(a) THEN <<>>
    ELSE <<(a[i] - Digit(b, i) - borrow) % BigBase>>
           \o BigSubFrom(a, b, i + 1,
                         IF a[i] - Digit(b, i) - borrow < 0 THEN 1 ELSE 0)

BigSub(a, b) == The({BigTrim(BigSubFrom(x, y, 1, 0)) : x \in {a}, y \in {b}})

\* the digits of a * k from digit i on, for one digit k
RECURSIVE BigMulDigitFrom(_, _, _, _)
BigMulDigitFrom(a, k, i, carry) ==
    IF i > Len(a)
    THEN IF carry = 0 THEN <<>> ELSE <<carry>>
    ELSE <<(a[i] * k + carry) % BigBase>>
           \o BigMulDigitFrom(a, k, i + 1, (a[i] * k + carry) \div BigBase)

\* a * BigBase
BigShift(a) == The({IF x = <<>> THEN x ELSE <<0>> \o x : x \in {a}})

\* a times the digits of b from digit j on
RECURSIVE BigMulFrom(_, _, _)
BigMulFrom(a, b, j) ==
    IF j > Len(b) THEN <<>>
    ELSE BigAdd(BigTrim(BigMulDigitFrom(a, b[j], 1, 0)),
                BigShift(BigMulFrom(a, b, j + 1)))

BigMul(a, b) == The({BigMulFrom(x, y, 1) : x \in {a}, y \in {b}})

\* the digits 1..i of (carry * BigBase^i + a) div 2
RECURSIVE BigHalfFrom(_, _, _)
BigHalfFrom(a, i, carry) ==
    IF i = 0 THEN <<>>
    ELSE BigHalfFrom(a, i - 1, a[i] % 2)
           \o <<(carry * BigBase + a[i]) \div 2>>

BigHalf(a) == The({BigTrim(BigHalfFrom(x, Len(x), 0)) : x \in {a}})

BigEven(a) == Digit(a, 1) % 2 = 0

\* a div b for b > 0, by repeated subtraction (the quotients taken are small)
RECURSIVE BigQuotient(_, _)
BigQuotient(a, b) ==
    The({IF BigLess(x, y) THEN 0 ELSE 1 + BigQuotient(BigSub(x, y), y) :
            x \in {a}, y \in {b}})

(***************************************************************************)
(* Rationals <<n, d>> with d > 0 in lowest terms: the values of cwnd and   *)
(* ssthresh (Python floats built from +1, +3, /2 and +1/cwnd; the rounding *)
(* of the floats is not modelled).                                         *)
(***************************************************************************)
RatInt(i) == <<Big(i), Big(1)>>

\* x + y, in lowest terms when the denominators of x and y have no common
\* factor, as when y is an integer or the inverse of x
RatAdd(x, y) ==
    The({<<BigAdd(BigMul(u[1], v[2]), BigMul(v[1], u[2])), BigMul(u[2], v[2])>> :
            u \in {x}, v \in {y}})

RatLess(x, y) ==
    \E u \in {x}, v \in {y} :
       BigLess(BigMul(u[1], v[2]), BigMul(v[1], u[2]))

RatMax(x, y) == The({IF RatLess(u, v) THEN v ELSE u : u \in {x}, v \in {y}})

RatHalf(x) ==
    The({IF BigEven(u[1]) THEN <<BigHalf(u[1]), u[2]>>
         ELSE <<u[1], BigAdd(u[2], u[2])>> : u \in {x}})

\* 1 / x for x > 0
RatInv(x) == The({<<u[2], u[1]>> : u \in {x}})

\* int(x) for x >= 0
RatFloor(x) == The({BigQuotient(u[1], u[2]) : u \in {x}})

Min(a, b) == IF a < b THEN a ELSE b

Max(a, b) == IF a > b THEN a ELSE b

(***************************************************************************)
(* CongestionControl (protocol.py:67-116). A congestion state is a record  *)
(* [cwnd, ssthresh, duplicate_acks, last_ack, in_fast_recovery].           *)
(***************************************************************************)
CongestionInit ==
    [cwnd |-> RatInt(INITIAL_WINDOW_SIZE),
     ssthresh |-> RatInt(INITIAL_SSTHRESH),
     duplicate_acks |-> 0,
     last_ack |-> 0,
     in_fast_recovery |-> FALSE]

\* the window on entering fast recovery (protocol.py:101)
recovery_window_plain(ssthresh) == ssthresh

recovery_window(ssthresh) == RatAdd(ssthresh, RatInt(3))

\* the value on_ack_received stores in last_ack for a new ACK (protocol.py:92)
acknowledged_before(c, ack_num) == c.last_ack

acknowledged(c, ack_num) == ack_num

\* cwnd after a new ACK: slow start or congestion avoidance (protocol.py:85-90)
cwnd_slow_start(c) == RatAdd(c.cwnd, RatInt(1))

cwnd_increased(c) ==
    IF RatLess(c.cwnd, c.ssthresh)
    THEN RatAdd(c.cwnd, RatInt(1))
    ELSE RatAdd(c.cwnd, RatInv(c.cwnd))

on_ack_received(c, ack_num) ==
    IF ack_num > c.last_ack
    THEN [c EXCEPT !.duplicate_acks = 0,
                   !.in_fast_recovery = FALSE,
                   !.cwnd = cwnd_increased(c),
                   !.last_ack = acknowledged(c, ack_num)]
    ELSE LET d == c.duplicate_acks + 1 IN
         IF d = 3 /\ ~c.in_fast_recovery
         THEN LET s == RatMax(RatHalf(c.cwnd), RatInt(2)) IN
              [c EXCEPT !.duplicate_acks = d,
                        !.ssthresh = s,
                        !.cwnd = recovery_window(s),
                        !.in_fast_recovery = TRUE]
         ELSE IF c.in_fast_recovery
         THEN [c EXCEPT !.duplicate_acks = d,
                        !.cwnd = RatAdd(c.cwnd, RatInt(1))]
         ELSE [c EXCEPT !.duplicate_acks = d]

on_timeout_in_recovery(c) ==
    [c EXCEPT !.ssthresh = RatMax(RatHalf(c.cwnd), RatInt(2)),
              !.cwnd = RatInt(INITIAL_WINDOW_SIZE),
              !.duplicate_acks = 0]

on_timeout(c) ==
    [c EXCEPT !.ssthresh = RatMax(RatHalf(c.cwnd), RatInt(2)),
              !.cwnd = RatInt(INITIAL_WINDOW_SIZE),
              !.duplicate_acks = 0,
              !.in_fast_recovery = FALSE]

get_window_size(c, receiver_window) ==
    Min(Min(RatFloor(c.cwnd), receiver_window), MAX_WINDOW_SIZE)

(***************************************************************************)
(* RTTEstimator (protocol.py:166-199). The samples are wall-clock          *)
(* differences; the model keeps the number of samples taken.               *)
(***************************************************************************)
RTTEstimatorInit == [measurements |-> 0]

update(e) == [e EXCEPT !.measurements = e.measurements + 1]

(***************************************************************************)
(* Packet (protocol.py:27-36). The local timestamp is not modelled.        *)
(***************************************************************************)
Packet(seq_num, ack_num, flags, window, payload) ==
    [seq_num |-> seq_num, ack_num |-> ack_num, flags |-> flags,
     window |-> window, payload |-> payload]

(***************************************************************************)
(* The wire format (protocol.py:21-25, 38-61): struct '!IIIH', big-endian  *)
(* seq_num(4) ack_num(4) flags(4) window(2), then the payload.             *)
(***************************************************************************)
PacketTypes == {"DATA", "ACK", "SYN", "FIN"}

\* PacketType.value
PacketTypeValue(flags) ==
    CASE flags = "DATA" -> 0
      [] flags = "ACK" -> 1
      [] flags = "SYN" -> 2
      [] flags = "FIN" -> 3

\* PacketType(flags_value), for a value of the enumeration
PacketTypeOf(flags_value) ==
    CHOOSE flags \in PacketTypes : PacketTypeValue(flags) = flags_value

\* struct.pack of one unsigned field of size bytes, and struct.unpack of it
RECURSIVE pack_uint_little(_, _)
pack_uint_little(n, size) ==
    IF size = 0 THEN <<>>
    ELSE <<n % 256>> \o pack_uint_little(n \div 256, size - 1)

RECURSIVE pack_uint(_, _)
pack_uint(n, size) ==
    IF size = 0 THEN <<>>
    ELSE pack_uint(n \div 256, size - 1) \o <<n % 256>>

RECURSIVE unpack_uint(_)
unpack_uint(bytes) ==
    IF bytes = <<>> THEN 0
    ELSE unpack_uint(SubSeq(bytes, 1, Len(bytes) - 1)) * 256 + bytes[Len(bytes)]

\* Packet.to_bytes (protocol.py:38-45)
to_bytes(packet) ==
    pack_uint(packet.seq_num, 4) \o pack_uint(packet.ack_num, 4)
      \o pack_uint(PacketTypeValue(packet.flags), 4)
      \o pack_uint(packet.window, 2) \o packet.payload

\* the outcomes of Packet.from_bytes: a packet, None, or the ValueError that
\* PacketType(flags_value) raises
Decoded(packet) == [kind |-> "packet", packet |-> packet]

None == [kind |-> "None"]

ValueError == [kind |-> "ValueError"]

\* Packet.from_bytes (protocol.py:47-61)
from_bytes(data) ==
    IF Len(data) < HEADER_SIZE THEN None
    ELSE LET header == SubSeq(data, 1, HEADER_SIZE)
             payload == SubSeq(data, HEADER_SIZE + 1, Len(data))
             seq_num == unpack_uint(SubSeq(header, 1, 4))
             ack_num == unpack_uint(SubSeq(header, 5, 8))
             flags_value == unpack_uint(SubSeq(header, 9, 12))
             window == unpack_uint(SubSeq(header, 13, 14))
         IN IF flags_value \notin {PacketTypeValue(t) : t \in PacketTypes}
            THEN ValueError
            ELSE Decoded(Packet(seq_num, ack_num, PacketTypeOf(flags_value),
                                window, payload))

\* no packet is passing through the codec
NoDatagram == [pc |-> "none"]

(***************************************************************************)
(* Inputs.                                                                 *)
(***************************************************************************)
\* initial sequence numbers drawn by random.randint(0, 100000)
ClientISNs == {7}

ServerISNs == {3}

\* packet_loss_rate and the draw random.random() in units of 1/LossGrid
LossGrid == 2

\* contents of the input files: n bytes of a repeating 0x00..0xFF pattern
FileData(n) == [i \in 1..n |-> (i - 1) % 256]

FileSizes ==
    {0, 1, MAX_PAYLOAD_SIZE, MaxFileSegs * MAX_PAYLOAD_SIZE + 1}

SyntheticSizes == {MAX_PAYLOAD_SIZE + 1}

\* send_synthetic_data: data_pattern and the chunk cut from it (client.py:223-234)
data_pattern(total_bytes) ==
    [i \in 1..Min(MAX_PAYLOAD_SIZE, total_bytes) |-> (i - 1) % 256]

SyntheticChunk(total_bytes, bytes_sent) ==
    LET chunk_size == Min(MAX_PAYLOAD_SIZE, total_bytes - bytes_sent)
        pattern == data_pattern(total_bytes)
    IN IF chunk_size < Len(pattern) THEN SubSeq(pattern, 1, chunk_size) ELSE pattern

\* the byte stream send_synthetic_data transmits: its chunks in order
RECURSIVE SyntheticStreamFrom(_, _)
SyntheticStreamFrom(total_bytes, bytes_sent) ==
    IF bytes_sent >= total_bytes THEN <<>>
    ELSE LET chunk == SyntheticChunk(total_bytes, bytes_sent)
         IN chunk \o SyntheticStreamFrom(total_bytes, bytes_sent + Len(chunk))

VARIABLES
    client,     \* ReliableUDPClient: fields, and the position of its send loop
    file,       \* the input file object of send_file: its read position
    server,     \* ReliableUDPServer: fields, output written, loop status
    c2s,        \* datagrams in flight from client to server
    s2c,        \* datagrams in flight from server to client
    dups,       \* duplications the channels have made so far
    timeouts_left,  \* receive timeouts the sender may still take; -1: any number
    wire        \* a packet on its way through the codec: as built, as the
                \* datagram handed to the socket, as decoded on receipt

vars == <<client, file, server, c2s, s2c, dups, timeouts_left, wire>>

\* the sender's input stream S
Stream ==
    IF client.mode = "file" THEN FileData(client.total)
    ELSE SyntheticStreamFrom(client.total, 0)

(***************************************************************************)
(* The network: sendto puts a datagram in the channel unless the channel   *)
(* is full, in which case the datagram is lost.                            *)
(***************************************************************************)
sendto(chan, packet) ==
    IF packet \in chan \/ Cardinality(chan) < MaxChan
    THEN chan \cup {packet}
    ELSE chan

\* the channel after a delivery: the datagram stays when it is duplicated
Taken(chan, packet, dup) == IF dup THEN chan ELSE chan \ {packet}

DupOK(dup) == dup => dups < MaxDup

\* an empty dict
EmptyMap == [k \in {} |-> 0]

\* d[key] = value, and del d[key] for every key of a set
Put(d, key, value) ==
    [k \in DOMAIN d \cup {key} |-> IF k = key THEN value ELSE d[k]]

Remove(d, keys) == [k \in DOMAIN d \ keys |-> d[k]]

(***************************************************************************)
(* State after construction and a completed three-way handshake            *)
(* (client.py:60-99, server.py:51-94).                                     *)
(***************************************************************************)
\* duration = time.time() - start_time after the send loops (client.py:169,
\* 190 and 219, 251), as zero or not: the two readings of the clock can be
\* equal only when no iteration of a loop lies between them, and in
\* send_synthetic_data the construction of data_pattern lies between them
Durations(mode, total) ==
    IF mode = "file" /\ total = 0 THEN {0, 1} ELSE {1}

\* the result of the send operation after its loops: file_size / duration
\* raises ZeroDivisionError for a zero duration, which the except clause
\* turns into False (client.py:190-201)
send_result(duration) == IF duration = 0 THEN "failure" ELSE "success"

ClientEstablished(isn_c, isn_s, mode, total, duration) ==
    [syn_packet |-> Packet(isn_c, 0, "SYN", ClientWindow, <<>>),
     sequence_number |-> isn_c + 1,
     initial_sequence |-> isn_c + 1,
     next_seq_to_send |-> isn_c + 1,
     base |-> isn_c + 1,
     expected_seq_num |-> isn_s + 1,
     window_size |-> ClientWindow,
     receiver_window |-> max_window_size,
     send_buffer |-> EmptyMap,
     congestion |-> CongestionInit,
     rtt_estimator |-> RTTEstimatorInit,
     retransmissions |-> 0,
     total_packets_sent |-> 0,
     mode |-> mode,
     total |-> total,
     available_slots |-> 0,
     pc |-> IF total > 0 THEN "send" ELSE "returned",
     result |-> IF total > 0 THEN "none" ELSE send_result(duration),
     fin_ack |-> "unset",
     sock |-> "open"]

ServerEstablished(isn_c, isn_s, rate) ==
    [sequence_number |-> isn_s,
     expected_seq_num |-> isn_c + 1,
     window_size |-> max_window_size,
     client_window |-> ClientWindow,
     receive_buffer |-> EmptyMap,
     packet_loss_rate |-> rate,
     data_buffer |-> <<>>,
     total_bytes |-> 0,
     ack_packet |-> "ACK",
     remote_addr |-> "client",
     state |-> "established"]

Established(file_sizes, synthetic_sizes, rates, timeouts, dups_made) ==
    \E isn_c \in ClientISNs, isn_s \in ServerISNs, rate \in rates,
       mode \in {"file", "synthetic"} :
      \E total \in (IF mode = "file" THEN file_sizes ELSE synthetic_sizes) :
       \E duration \in Durations(mode, total) :
        /\ client = ClientEstablished(isn_c, isn_s, mode, total, duration)
        /\ file = [pos |-> 0]
        /\ server = ServerEstablished(isn_c, isn_s, rate)
        /\ c2s = {}
        /\ s2c = {}
        /\ dups = dups_made
        /\ timeouts_left = timeouts

InitWith(file_sizes, synthetic_sizes, rates, timeouts, dups_made) ==
    /\ Established(file_sizes, synthetic_sizes, rates, timeouts, dups_made)
    /\ wire = NoDatagram

Init == InitWith(FileSizes, SyntheticSizes, 0..LossGrid, MaxTimeouts, 0)

(***************************************************************************)
(* Sender (client.py).                                                     *)
(***************************************************************************)
\* packets_in_flight as the sender computes it (client.py:337)
packets_in_flight(c) == (c.next_seq_to_send - c.base) \div MAX_PAYLOAD_SIZE

\* the DATA packet _send_data_chunk builds through send_packet (client.py:358-360)
DataPacket(c, chunk) ==
    Packet(c.sequence_number, c.expected_seq_num, "DATA", c.window_size, chunk)

\* the sender after _send_data_chunk(chunk) (client.py:351-371, protocol.py:146-147)
send_data_chunk(c, chunk) ==
    LET curr_seq == c.sequence_number
        sequence_number == c.sequence_number + Len(chunk)
    IN [c EXCEPT !.sequence_number = sequence_number,
                 !.send_buffer = Put(c.send_buffer, curr_seq,
                                     [packet |-> DataPacket(c, chunk), retries |-> 0]),
                 !.total_packets_sent = c.total_packets_sent + 1,
                 !.next_seq_to_send = sequence_number]

\* the entries a cumulative ACK removes from send_buffer (client.py:430)
keys_below_base(c, ack_num) == {seq \in DOMAIN c.send_buffer : seq < c.base}

keys_up_to_ack(c, ack_num) == {seq \in DOMAIN c.send_buffer : seq <= ack_num}

keys_to_remove(c, ack_num) == {seq \in DOMAIN c.send_buffer : seq < ack_num}

\* whether a cumulative ACK moves base (client.py:422)
moves_base(c, ack_packet) == ack_packet.ack_num # c.base

advances_base(c, ack_packet) == ack_packet.ack_num > c.base

\* the sender after _process_ack(ack_packet) (client.py:401-457)
process_ack(c, ack_packet) ==
    LET c1 == [c EXCEPT !.receiver_window = ack_packet.window,
                        !.congestion = on_ack_received(c.congestion, ack_packet.ack_num)]
    IN IF advances_base(c1, ack_packet)
       THEN [c1 EXCEPT !.rtt_estimator =
                           IF c1.base \in keys_to_remove(c1, ack_packet.ack_num)
                           THEN update(c1.rtt_estimator)
                           ELSE c1.rtt_estimator,
                       !.send_buffer =
                           Remove(c1.send_buffer,
                                  keys_to_remove(c1, ack_packet.ack_num)),
                       !.base = ack_packet.ack_num]
       ELSE c1

\* the packet _handle_timeout retransmits (client.py:481-487)
updated_packet_renumbered(c) ==
    LET packet == c.send_buffer[c.base].packet
    IN Packet(c.sequence_number, packet.ack_num, packet.flags, c.window_size,
              packet.payload)

updated_packet(c) ==
    LET packet == c.send_buffer[c.base].packet
    IN Packet(packet.seq_num, packet.ack_num, packet.flags, c.window_size,
              packet.payload)

\* whether _handle_timeout retransmits (client.py:471-477)
RetransmitsUnbounded(c) == c.base \in DOMAIN c.send_buffer

Retransmits(c) ==
    /\ c.base \in DOMAIN c.send_buffer
    /\ ~(c.send_buffer[c.base].retries >= MAX_RETRIES)

\* the sender after _handle_timeout() (client.py:459-499)
handle_timeout(c) ==
    LET c1 == [c EXCEPT !.congestion = on_timeout(c.congestion)]
    IN IF Retransmits(c1)
       THEN [c1 EXCEPT !.retransmissions = c1.retransmissions + 1,
                       !.send_buffer[c1.base] =
                           [packet |-> updated_packet(c1),
                            retries |-> c1.send_buffer[c1.base].retries + 1]]
       ELSE c1

\* the sender after the part of _handle_acknowledgments that follows the
\* receipt of a packet (client.py:378-395)
handle_packet(c, packet) ==
    LET c1 == IF packet.flags = "ACK" THEN process_ack(c, packet) ELSE c
        c2 == IF packet.flags = "DATA" /\ packet.seq_num = c1.expected_seq_num
              THEN [c1 EXCEPT !.expected_seq_num =
                                  c1.expected_seq_num + Len(packet.payload)]
              ELSE c1
    IN [c2 EXCEPT !.receiver_window = packet.window]

\* the condition of the send loops (client.py:173, 226)
more_or_none_to_send(bytes_sent, total) == bytes_sent <= total

more_to_send(bytes_sent, total) == bytes_sent < total

\* where the send loops of send_file and send_synthetic_data continue after
\* _handle_acknowledgments returned (client.py:173-197, 226-257)
Continue(c) ==
    LET bytes_sent == c.sequence_number - c.initial_sequence
    IN IF c.pc = "recv" /\ more_to_send(bytes_sent, c.total)
       THEN [c EXCEPT !.pc = "send"]
       ELSE IF c.base < c.next_seq_to_send
       THEN [c EXCEPT !.pc = "drain"]
       ELSE [c EXCEPT !.pc = "returned", !.result = send_result(1)]

\* _send_available_data up to its loop (client.py:331-343)
SendAvailableData ==
    /\ client.pc = "send"
    /\ client.mode = "file"
    /\ LET effective_window ==
               get_window_size(client.congestion, client.receiver_window)
           available_slots == Max(0, effective_window - packets_in_flight(client))
       IN client' = [client EXCEPT !.available_slots = available_slots,
                                   !.pc = IF available_slots > 0 THEN "fill"
                                          ELSE "recv"]
    /\ UNCHANGED <<file, server, c2s, s2c, dups, timeouts_left, wire>>

\* file.read(size) at position pos of a file holding data (client.py:345)
read_packet_size(data, pos, size) ==
    SubSeq(data, pos + 1, Min(pos + MAX_PACKET_SIZE, Len(data)))

read(data, pos, size) == SubSeq(data, pos + 1, Min(pos + size, Len(data)))

\* one iteration of the loop of _send_available_data (client.py:343-349)
FillWindow ==
    /\ client.pc = "fill"
    /\ LET chunk == read(FileData(client.total), file.pos, MAX_PAYLOAD_SIZE)
       IN IF chunk = <<>>
          THEN /\ client' = [client EXCEPT !.pc = "recv"]
               /\ UNCHANGED <<file, c2s>>
          ELSE /\ file' = [file EXCEPT !.pos = file.pos + Len(chunk)]
               /\ c2s' = sendto(c2s, DataPacket(client, chunk))
               /\ client' = [send_data_chunk(client, chunk) EXCEPT
                                !.available_slots = client.available_slots - 1,
                                !.pc = IF client.available_slots > 1 THEN "fill"
                                       ELSE "recv"]
    /\ UNCHANGED <<server, s2c, dups, timeouts_left, wire>>

\* one iteration of the send loop of send_synthetic_data up to its receive
\* (client.py:226-236)
SendSynthetic ==
    /\ client.pc = "send"
    /\ client.mode = "synthetic"
    /\ LET bytes_sent == client.sequence_number - client.initial_sequence
           chunk == SyntheticChunk(client.total, bytes_sent)
       IN /\ c2s' = sendto(c2s, DataPacket(client, chunk))
          /\ client' = [send_data_chunk(client, chunk) EXCEPT !.pc = "recv"]
    /\ UNCHANGED <<file, server, s2c, dups, timeouts_left, wire>>

\* the channel after the sender acknowledged an expected DATA packet
\* (client.py:383-388)
acknowledge_data(chan, c, packet) ==
    IF packet.flags = "DATA" /\ packet.seq_num = c.expected_seq_num
    THEN sendto(chan, Packet(c.sequence_number,
                             c.expected_seq_num + Len(packet.payload),
                             "ACK", c.window_size, <<>>))
    ELSE chan

\* _handle_acknowledgments when a packet arrives (client.py:373-395)
ClientReceive ==
    /\ client.pc \in {"recv", "drain"}
    /\ \E packet \in s2c, dup \in BOOLEAN :
         /\ DupOK(dup)
         /\ s2c' = Taken(s2c, packet, dup)
         /\ dups' = IF dup THEN dups + 1 ELSE dups
         /\ client' = Continue(handle_packet(client, packet))
         /\ c2s' = acknowledge_data(c2s, client, packet)
    /\ UNCHANGED <<file, server, timeouts_left, wire>>

\* _handle_acknowledgments when the receive times out (client.py:397-399)
ClientTimeout ==
    /\ client.pc \in {"recv", "drain"}
    /\ timeouts_left # 0
    /\ timeouts_left' = IF timeouts_left > 0 THEN timeouts_left - 1
                        ELSE timeouts_left
    /\ client' = Continue(handle_timeout(client))
    /\ c2s' = IF Retransmits(client) THEN sendto(c2s, updated_packet(client))
              ELSE c2s
    /\ UNCHANGED <<file, server, s2c, dups, wire>>

\* close_connection up to its receive (client.py:101-112)
CloseConnection ==
    /\ client.pc = "returned"
    /\ c2s' = sendto(c2s, Packet(client.sequence_number, 0, "FIN",
                                 client.window_size, <<>>))
    /\ client' = [client EXCEPT !.pc = "fin_wait"]
    /\ UNCHANGED <<file, server, s2c, dups, timeouts_left, wire>>

\* close_connection from its receive on: a packet or the timeout
\* (client.py:112-118); fin_ack is its local variable, kept as the type of the
\* reply
ClientClosed ==
    /\ client.pc = "fin_wait"
    /\ \/ \E packet \in s2c, dup \in BOOLEAN :
            /\ DupOK(dup)
            /\ s2c' = Taken(s2c, packet, dup)
            /\ dups' = IF dup THEN dups + 1 ELSE dups
            /\ client' = [client EXCEPT !.pc = "closed", !.sock = "closed",
                                        !.fin_ack = packet.flags]
       \/ /\ UNCHANGED <<s2c, dups>>
          /\ client' = [client EXCEPT !.pc = "closed", !.sock = "closed",
                                      !.fin_ack = "None"]
    /\ UNCHANGED <<file, server, c2s, timeouts_left, wire>>

(***************************************************************************)
(* Receiver (server.py).                                                   *)
(***************************************************************************)
RECURSIVE PayloadBytes(_, _)
PayloadBytes(buffer, keys) ==
    IF keys = {} THEN 0
    ELSE LET k == CHOOSE x \in keys : TRUE
         IN Len(buffer[k].payload) + PayloadBytes(buffer, keys \ {k})

\* the window _update_window_size computes (server.py:99-111); processing_bytes
\* is 0 whenever it is called
window_never_updated(receive_buffer) == max_window_size

update_window_size(receive_buffer) ==
    LET buffer_usage == PayloadBytes(receive_buffer, DOMAIN receive_buffer)
        available_space == Max(0, buffer_capacity - buffer_usage)
    IN Max(1, available_space \div MAX_PAYLOAD_SIZE)

\* the keys _handle_data_packet drains after an in-order packet (server.py:222)
ordered_keys(receive_buffer, expected_seq_num) ==
    {k \in DOMAIN receive_buffer : k = expected_seq_num}

\* the receiver after the loop over ordered_keys (server.py:224-242)
RECURSIVE drain(_, _)
drain(s, keys) ==
    IF keys = {} THEN s
    ELSE LET seq == CHOOSE k \in keys : \A j \in keys : k <= j
             buffered_packet == s.receive_buffer[seq]
             payload_size == Len(buffered_packet.payload)
         IN drain([s EXCEPT !.receive_buffer = Remove(s.receive_buffer, {seq}),
                            !.data_buffer = s.data_buffer \o buffered_packet.payload,
                            !.total_bytes = s.total_bytes + payload_size,
                            !.expected_seq_num = s.expected_seq_num + payload_size],
                   keys \ {seq})

\* whether a DATA packet is the expected one (server.py:201)
is_expected_or_later(s, packet) == packet.seq_num >= s.expected_seq_num

is_expected(s, packet) == packet.seq_num = s.expected_seq_num

\* whether a DATA packet that is not the expected one is buffered
\* (server.py:244)
is_other(s, packet) == packet.seq_num # s.expected_seq_num

is_later(s, packet) == packet.seq_num > s.expected_seq_num

\* the receiver after _handle_data_packet(packet) when the packet is not
\* dropped by the loss simulation (server.py:198-252)
accept_data(s, packet) ==
    LET s1 ==
          IF is_expected(s, packet)
          THEN LET payload_size == Len(packet.payload)
                   s0 == [s EXCEPT !.data_buffer = s.data_buffer \o packet.payload,
                                   !.total_bytes = s.total_bytes + payload_size,
                                   !.expected_seq_num =
                                       s.expected_seq_num + payload_size]
               IN drain(s0, ordered_keys(s0.receive_buffer, s0.expected_seq_num))
          ELSE IF is_later(s, packet)
          THEN [s EXCEPT !.receive_buffer = Put(s.receive_buffer, packet.seq_num,
                                                packet)]
          ELSE s
    IN [s1 EXCEPT !.window_size = update_window_size(s1.receive_buffer)]

\* the loss simulation of _handle_data_packet: the draw r / LossGrid of
\* random.random() against packet_loss_rate (server.py:190)
SimulatedLoss(s, r) == r < s.packet_loss_rate

\* the receiver after _handle_data_packet(packet) (server.py:185-257)
handle_data_packet(s, packet, r) ==
    IF SimulatedLoss(s, r)
    THEN [s EXCEPT !.window_size = update_window_size(s.receive_buffer)]
    ELSE accept_data(s, packet)

\* the cumulative ACK the receiver sends (server.py:195, 255)
AckPacketNext(s) ==
    Packet(s.sequence_number, s.expected_seq_num + 1, "ACK", s.window_size, <<>>)

AckPacket(s) ==
    Packet(s.sequence_number, s.expected_seq_num, "ACK", s.window_size, <<>>)

\* the FIN with which receive_data answers a FIN (server.py:159-160)
fin_echo(s, packet, window_size) ==
    Packet(s.sequence_number, packet.seq_num, "FIN", window_size, <<>>)

fin_reply(s, packet, window_size) ==
    Packet(s.sequence_number, packet.seq_num + 1, "FIN", window_size, <<>>)

\* send_packet of the server (protocol.py:133-149): the datagram goes to
\* remote_addr, which is the client's address or that of another host
reply(chan, s, packet) ==
    IF s.remote_addr = "client" THEN sendto(chan, packet) ELSE chan

\* one iteration of the loop of receive_data in which a packet arrives from
\* addr (server.py:133-161)
receive_data_packet(packet, addr, r) ==
    IF addr # server.remote_addr
    THEN /\ server' = server
         /\ s2c' = s2c
    ELSE LET s == [server EXCEPT !.client_window = packet.window]
         IN CASE packet.flags = "DATA" ->
                   /\ server' = handle_data_packet(s, packet, r)
                   /\ s2c' = reply(s2c, s, AckPacket(server'))
              [] packet.flags = "FIN" ->
                   LET window_size == update_window_size(s.receive_buffer)
                   IN /\ server' = [s EXCEPT !.window_size = window_size,
                                             !.state = "closed"]
                      /\ s2c' = reply(s2c, s, fin_reply(s, packet, window_size))
              [] OTHER ->
                   /\ server' = s
                   /\ s2c' = s2c

\* one iteration of the loop of receive_data in which a packet of the
\* client arrives
ServerReceive ==
    /\ server.state = "established"
    /\ \E packet \in c2s, dup \in BOOLEAN, r \in 0..(LossGrid - 1) :
         /\ DupOK(dup)
         /\ c2s' = Taken(c2s, packet, dup)
         /\ dups' = IF dup THEN dups + 1 ELSE dups
         /\ receive_data_packet(packet, "client", r)
    /\ UNCHANGED <<client, file, timeouts_left, wire>>

\* the loop of receive_data ends when no packet arrives for 30 s
\* (server.py:137-141)
ServerIdle ==
    /\ server.state = "established"
    /\ server' = [server EXCEPT !.state = "closed"]
    /\ UNCHANGED <<client, file, c2s, s2c, dups, timeouts_left, wire>>

(***************************************************************************)
(* Construction and the three-way handshake (client.py:22-99,              *)
(* server.py:21-97).                                                       *)
(***************************************************************************)
\* initial sequence numbers of the runs that start at construction
CreatedClientISNs == ClientISNs \cup {0, 100000}

CreatedServerISNs == ServerISNs \cup {100000}

\* ReliableUDPClient.__init__ (client.py:22-58, protocol.py:122-131); syn_packet
\* is the local variable of establish_connection
ClientCreated(isn_c, mode, total) ==
    [syn_packet |-> Packet(0, 0, "SYN", 0, <<>>),
     sequence_number |-> isn_c,
     initial_sequence |-> isn_c,
     next_seq_to_send |-> isn_c,
     base |-> isn_c,
     expected_seq_num |-> 0,
     window_size |-> ClientWindow,
     receiver_window |-> INITIAL_WINDOW_SIZE,
     send_buffer |-> EmptyMap,
     congestion |-> CongestionInit,
     rtt_estimator |-> RTTEstimatorInit,
     retransmissions |-> 0,
     total_packets_sent |-> 0,
     mode |-> mode,
     total |-> total,
     available_slots |-> 0,
     pc |-> "connect",
     result |-> "none",
     fin_ack |-> "unset",
     sock |-> "open"]

\* ReliableUDPServer.__init__ (server.py:21-49, protocol.py:122-131); ack_packet
\* is the local variable of wait_for_connection, kept as the type of the packet
ServerCreated(isn_s, rate) ==
    [sequence_number |-> isn_s,
     expected_seq_num |-> 0,
     window_size |-> max_window_size,
     client_window |-> 0,
     receive_buffer |-> EmptyMap,
     packet_loss_rate |-> rate,
     data_buffer |-> <<>>,
     total_bytes |-> 0,
     ack_packet |-> "unset",
     remote_addr |-> "None",
     state |-> "listen"]

Created(file_sizes, synthetic_sizes, rates, timeouts, dups_made) ==
    \E isn_c \in CreatedClientISNs, isn_s \in CreatedServerISNs, rate \in rates,
       mode \in {"file", "synthetic"} :
      \E total \in (IF mode = "file" THEN file_sizes ELSE synthetic_sizes) :
        /\ client = ClientCreated(isn_c, mode, total)
        /\ file = [pos |-> 0]
        /\ server = ServerCreated(isn_s, rate)
        /\ c2s = {}
        /\ s2c = {}
        /\ dups = dups_made
        /\ timeouts_left = timeouts
        /\ wire = NoDatagram

\* establish_connection up to its receive (client.py:60-68)
SendSyn ==
    /\ client.pc = "connect"
    /\ LET syn_packet == Packet(client.sequence_number, 0, "SYN",
                                client.window_size, <<>>)
       IN /\ c2s' = sendto(c2s, syn_packet)
          /\ client' = [client EXCEPT !.syn_packet = syn_packet,
                                      !.pc = "syn_sent"]
    /\ UNCHANGED <<file, server, s2c, dups, timeouts_left, wire>>

\* whether the reply completes the handshake (client.py:69)
is_syn_ack(syn_ack) == syn_ack.flags = "SYN"

\* the sequence number after the SYN (client.py:83)
syn_not_counted(sequence_number) == sequence_number

syn_consumed(sequence_number) == sequence_number + 1

\* the ConnectionError of establish_connection (client.py:70) leaves send_file
\* and send_synthetic_data, which call it outside their try (client.py:155,
\* 207), and main, which catches KeyboardInterrupt only (client.py:536)
handshake_ignored(c) ==
    [c EXCEPT !.pc = IF c.total > 0 THEN "send" ELSE "returned"]

handshake_failed(c) ==
    [c EXCEPT !.pc = "failed", !.result = "handshake_failed"]

\* the sender after establish_connection received syn_ack (client.py:72-99),
\* at the start of the send loop of send_file or send_synthetic_data
established(c, syn_ack, duration) ==
    LET sequence_number == syn_consumed(c.sequence_number)
    IN [c EXCEPT !.expected_seq_num = syn_ack.seq_num + 1,
                 !.receiver_window = syn_ack.window,
                 !.sequence_number = sequence_number,
                 !.initial_sequence = sequence_number,
                 !.next_seq_to_send = sequence_number,
                 !.base = sequence_number,
                 !.pc = IF more_to_send(0, c.total) THEN "send" ELSE "returned",
                 !.result = IF more_to_send(0, c.total) THEN "none"
                            ELSE send_result(duration)]

\* establish_connection from its receive on, when a packet arrives
\* (client.py:68-99)
ReceiveSynAck ==
    /\ client.pc = "syn_sent"
    /\ \E syn_ack \in s2c, dup \in BOOLEAN,
          duration \in Durations(client.mode, client.total) :
         /\ DupOK(dup)
         /\ s2c' = Taken(s2c, syn_ack, dup)
         /\ dups' = IF dup THEN dups + 1 ELSE dups
         /\ IF is_syn_ack(syn_ack)
            THEN /\ client' = established(client, syn_ack, duration)
                 /\ c2s' = sendto(c2s, Packet(client.sequence_number,
                                              syn_ack.seq_num + 1, "ACK",
                                              client.window_size, <<>>))
            ELSE /\ client' = handshake_failed(client)
                 /\ c2s' = c2s
    /\ UNCHANGED <<file, server, timeouts_left, wire>>

\* establish_connection when its receive times out after 5 s (client.py:68-70)
HandshakeTimeout ==
    /\ client.pc = "syn_sent"
    /\ client' = handshake_failed(client)
    /\ UNCHANGED <<file, server, c2s, s2c, dups, timeouts_left, wire>>

\* the server is in the first receive of wait_for_connection (server.py:57):
\* after construction or a failed handshake ("listen"), or after receive_data
\* returned ("closed") and the loop of main called wait_for_connection again
\* (server.py:277-280)
listening(s) == s.state \in {"listen", "closed"}

\* one iteration of the loop of wait_for_connection up to its second receive,
\* for a packet that arrives from addr (server.py:55-79, 96-97); in a new call
\* of wait_for_connection its local variable ack_packet is not yet assigned
wait_for_syn(packet, addr) ==
    IF packet.flags = "SYN"
    THEN LET s == [server EXCEPT
                     !.ack_packet = IF server.state = "closed"
                                    THEN "unset" ELSE @,
                     !.remote_addr = addr,
                     !.expected_seq_num = packet.seq_num + 1,
                     !.client_window = packet.window,
                     !.window_size = update_window_size(server.receive_buffer),
                     !.state = "syn_received"]
         IN /\ server' = s
            /\ s2c' = reply(s2c, s, Packet(s.sequence_number,
                                           s.expected_seq_num, "SYN",
                                           s.window_size, <<>>))
    ELSE /\ server' = server
         /\ s2c' = s2c

ServerReceiveSyn ==
    /\ listening(server)
    /\ \E packet \in c2s, dup \in BOOLEAN :
         /\ DupOK(dup)
         /\ c2s' = Taken(c2s, packet, dup)
         /\ dups' = IF dup THEN dups + 1 ELSE dups
         /\ wait_for_syn(packet, "client")
    /\ UNCHANGED <<client, file, timeouts_left, wire>>

\* whether the packet completes the handshake (server.py:83)
is_any_packet(ack_packet) == TRUE

is_final_ack(ack_packet) == ack_packet.flags = "ACK"

\* the server after the second receive of wait_for_connection returned
\* ack_packet, whatever its sender (server.py:82-94); when the handshake is
\* complete receive_data opens the output anew and empties it
\* (server.py:120-127)
wait_for_ack(s, ack_packet) ==
    IF ~is_final_ack(ack_packet)
    THEN [s EXCEPT !.ack_packet = ack_packet.flags,
                   !.remote_addr = "None",
                   !.state = "listen"]
    ELSE [s EXCEPT !.ack_packet = ack_packet.flags,
                   !.client_window = ack_packet.window,
                   !.data_buffer = <<>>,
                   !.state = "established"]

\* the server after that receive timed out after 5 s (server.py:82-86)
ack_timed_out(s) ==
    [s EXCEPT !.ack_packet = "None", !.remote_addr = "None",
              !.state = "listen"]

\* wait_for_connection from its second receive on, when a packet arrives
ServerReceiveAck ==
    /\ server.state = "syn_received"
    /\ \E ack_packet \in c2s, dup \in BOOLEAN :
         /\ DupOK(dup)
         /\ c2s' = Taken(c2s, ack_packet, dup)
         /\ dups' = IF dup THEN dups + 1 ELSE dups
         /\ server' = wait_for_ack(server, ack_packet)
    /\ UNCHANGED <<client, file, s2c, timeouts_left, wire>>

\* wait_for_connection when its second receive times out
ServerHandshakeTimeout ==
    /\ server.state = "syn_received"
    /\ server' = ack_timed_out(server)
    /\ UNCHANGED <<client, file, c2s, s2c, dups, timeouts_left, wire>>

(***************************************************************************)
(* The channels lose datagrams.                                            *)
(***************************************************************************)
LoseToServer ==
    /\ \E packet \in c2s : c2s' = c2s \ {packet}
    /\ UNCHANGED <<client, file, server, s2c, dups, timeouts_left, wire>>

LoseToClient ==
    /\ \E packet \in s2c : s2c' = s2c \ {packet}
    /\ UNCHANGED <<client, file, server, c2s, dups, timeouts_left, wire>>

Next ==
    \/ SendAvailableData
    \/ FillWindow
    \/ SendSynthetic
    \/ ClientReceive
    \/ ClientTimeout
    \/ CloseConnection
    \/ ClientClosed
    \/ ServerReceive
    \/ ServerIdle
    \/ ServerReceiveSyn
    \/ LoseToServer
    \/ LoseToClient

Spec == Init /\ [][Next]_vars

(***************************************************************************)
(* Further specifications.                                                 *)
(***************************************************************************)
\* send_synthetic_data of more segments than the congestion window holds, on
\* a receiver that simulates loss; the channels do not duplicate
InitSynthetic ==
    InitWith({}, {MaxSynSegs * MAX_PAYLOAD_SIZE + 1}, {1, LossGrid},
             MaxTimeouts, MaxDup)

NextSynthetic ==
    \/ SendSynthetic
    \/ ClientReceive
    \/ ClientTimeout
    \/ CloseConnection
    \/ ClientClosed
    \/ ServerReceive
    \/ ServerIdle
    \/ ServerReceiveSyn
    \/ LoseToServer
    \/ LoseToClient

SpecSynthetic == InitSynthetic /\ [][NextSynthetic]_vars

\* send_file to a receiver whose loss simulation drops every DATA packet
\* (packet_loss_rate 1.0), with any number of timeouts
InitBroken ==
    InitWith({MAX_PAYLOAD_SIZE + 1}, {}, {LossGrid}, -1, MaxDup)

NextBroken ==
    \/ SendAvailableData
    \/ FillWindow
    \/ ClientReceive
    \/ ClientTimeout
    \/ ServerReceive
    \/ ServerIdle
    \/ ServerReceiveSyn
    \/ LoseToServer
    \/ LoseToClient

SpecBroken == InitBroken /\ [][NextBroken]_vars

\* send_file of one segment over fair channels: the sender's loop keeps
\* running, and a datagram that is in flight again and again is delivered
InitFair == InitWith({MAX_PAYLOAD_SIZE}, {}, {0}, -1, MaxDup)

ClientStep ==
    \/ SendAvailableData
    \/ FillWindow
    \/ ClientReceive
    \/ ClientTimeout
    \/ CloseConnection
    \/ ClientClosed

NextFair ==
    \/ ClientStep
    \/ ServerReceive
    \/ ServerIdle
    \/ ServerReceiveSyn
    \/ LoseToServer
    \/ LoseToClient

FairSpec ==
    /\ InitFair
    /\ [][NextFair]_vars
    /\ WF_vars(ClientStep)
    /\ SF_vars(ServerReceive)
    /\ SF_vars(ClientReceive)

\* runs from construction: the handshake, a transfer of at most one segment
\* and the teardown, over channels that lose, reorder and duplicate
InitHandshake == Created({0, 1}, {1}, {0}, MaxTimeouts, 0)

NextHandshake ==
    \/ SendSyn
    \/ ReceiveSynAck
    \/ HandshakeTimeout
    \/ ServerReceiveAck
    \/ ServerHandshakeTimeout
    \/ Next

SpecHandshake == InitHandshake /\ [][NextHandshake]_vars

\* runs from construction of a one-byte send_file over channels that lose and
\* duplicate, with any number of timeouts: each endpoint's loop keeps running
\* and a datagram that is in flight again and again is delivered
InitAgreement == Created({1}, {}, {0}, -1, 0)

ClientSide ==
    \/ SendSyn
    \/ ReceiveSynAck
    \/ HandshakeTimeout
    \/ ClientStep

ServerSide ==
    \/ ServerReceiveSyn
    \/ ServerReceiveAck
    \/ ServerHandshakeTimeout
    \/ ServerReceive
    \/ ServerIdle

NextAgreement ==
    \/ ClientSide
    \/ ServerSide
    \/ LoseToServer
    \/ LoseToClient

SpecAgreement ==
    /\ InitAgreement
    /\ [][NextAgreement]_vars
    /\ WF_vars(ClientSide)
    /\ WF_vars(ServerSide)
    /\ SF_vars(ServerReceiveSyn)
    /\ SF_vars(ServerReceiveAck)
    /\ SF_vars(ServerReceive)
    /\ SF_vars(ReceiveSynAck)
    /\ SF_vars(ClientReceive)

\* runs from construction on a network that delivers every datagram once and
\* in the order sent, with no receive timing out: a step of an endpoint finds
\* room in the channel it sends to and takes the oldest datagram of the
\* channel it receives from (the client's datagrams are sent in the order of
\* their sequence numbers, the server's in the order of their acknowledgment
\* numbers)
InitOrderly ==
    Created({0, 1, MAX_PAYLOAD_SIZE, MaxFileSegs * MAX_PAYLOAD_SIZE + 1},
            {0, MAX_PAYLOAD_SIZE + 1}, {0}, 0, MaxDup)

InOrder ==
    /\ \A p \in c2s \ c2s' : \A q \in c2s : p.seq_num <= q.seq_num
    /\ \A p \in s2c \ s2c' : \A q \in s2c : p.ack_num <= q.ack_num

OrderlyClient(A) == Cardinality(c2s) < MaxChan /\ A /\ InOrder

OrderlyServer(A) == Cardinality(s2c) < MaxChan /\ A /\ InOrder

ClientOrderly ==
    \/ OrderlyClient(SendSyn)
    \/ OrderlyClient(ReceiveSynAck)
    \/ OrderlyClient(SendAvailableData)
    \/ OrderlyClient(FillWindow)
    \/ OrderlyClient(SendSynthetic)
    \/ OrderlyClient(ClientReceive)
    \/ OrderlyClient(CloseConnection)
    \/ OrderlyClient(ClientClosed /\ s2c' # s2c)

ServerOrderly ==
    \/ OrderlyServer(ServerReceiveSyn)
    \/ OrderlyServer(ServerReceiveAck)
    \/ OrderlyServer(ServerReceive)

NextOrderly == ClientOrderly \/ ServerOrderly

\* each endpoint's loop keeps running
SpecOrderly ==
    /\ InitOrderly
    /\ [][NextOrderly]_vars
    /\ WF_vars(ClientOrderly)
    /\ WF_vars(ServerOrderly)

\* send_file of two segments while a datagram of another host is on its way
\* to one of the endpoints: an empty one, one of 13 bytes, headers with type
\* tags 4 and 2^24 (the second with a payload byte), and a well-formed SYN
StrayDatagrams ==
    {<<>>,
     [i \in 1..(HEADER_SIZE - 1) |-> 0],
     pack_uint(0, 4) \o pack_uint(0, 4) \o pack_uint(4, 4) \o pack_uint(0, 2),
     pack_uint(8, 4) \o pack_uint(8, 4) \o pack_uint(16777216, 4)
        \o pack_uint(ClientWindow, 2) \o <<0>>,
     to_bytes(Packet(0, 0, "SYN", max_window_size, <<>>))}

InitMalformed ==
    /\ Established({MAX_PAYLOAD_SIZE + 1}, {}, {0}, MaxTimeouts, MaxDup)
    /\ \E dst \in {"client", "server"}, data \in StrayDatagrams :
         wire = [pc |-> "sent", dst |-> dst, data |-> data]

\* a receive of the server returns the datagram of another host. In
\* receive_data (server.py:137-145) None ends the loop, a ValueError is
\* caught at server.py:178-180 and ends receive_data, and a packet of an
\* address other than remote_addr is skipped. In wait_for_connection
\* (server.py:57-59, 82-86) None is skipped or counts as the missing ACK, a
\* packet is taken whatever its address, and a ValueError leaves
\* wait_for_connection and main, which do not catch it
ServerReceiveDatagram ==
    /\ server.state \in {"listen", "closed", "syn_received", "established"}
    /\ wire.pc = "sent"
    /\ wire.dst = "server"
    /\ LET datagram == from_bytes(wire.data)
       IN /\ wire' = [pc |-> "received", dst |-> wire.dst, data |-> wire.data,
                      decoded |-> datagram]
          /\ CASE datagram.kind = "packet" /\ server.state = "established" ->
                    \E r \in 0..(LossGrid - 1) :
                       receive_data_packet(datagram.packet, "other", r)
               [] datagram.kind = "packet" /\ listening(server) ->
                    wait_for_syn(datagram.packet, "other")
               [] datagram.kind = "packet" /\ server.state = "syn_received" ->
                    /\ server' = wait_for_ack(server, datagram.packet)
                    /\ s2c' = s2c
               [] datagram.kind # "packet" /\ server.state = "established" ->
                    /\ server' = [server EXCEPT !.state = "closed"]
                    /\ s2c' = s2c
               [] datagram.kind = "None" /\ listening(server) ->
                    /\ server' = server
                    /\ s2c' = s2c
               [] datagram.kind = "None" /\ server.state = "syn_received" ->
                    /\ server' = ack_timed_out(server)
                    /\ s2c' = s2c
               [] OTHER ->
                    /\ server' = [server EXCEPT !.state = "crashed"]
                    /\ s2c' = s2c
    /\ UNCHANGED <<client, file, c2s, dups, timeouts_left>>

\* a receive of the client, after the handshake, returns the datagram of
\* another host. In _handle_acknowledgments (client.py:376-399) None is taken
\* for a timeout, a ValueError leaves send_file through its except clause
\* (client.py:199-203), and a packet is handled whatever its address. In
\* close_connection (client.py:112-118) None and a packet of any type let it
\* close the socket, and a ValueError leaves close_connection before the
\* socket is closed and, from the finally clause, send_file
ClientReceiveDatagram ==
    /\ client.pc \in {"recv", "drain", "fin_wait"}
    /\ wire.pc = "sent"
    /\ wire.dst = "client"
    /\ LET packet == from_bytes(wire.data)
       IN /\ wire' = [pc |-> "received", dst |-> wire.dst, data |-> wire.data,
                      decoded |-> packet]
          /\ CASE client.pc = "fin_wait" /\ packet.kind = "ValueError" ->
                    /\ client' = [client EXCEPT !.pc = "raised",
                                                !.result = "ValueError"]
                    /\ c2s' = c2s
               [] client.pc = "fin_wait" /\ packet.kind # "ValueError" ->
                    /\ client' = [client EXCEPT
                                     !.pc = "closed", !.sock = "closed",
                                     !.fin_ack = IF packet.kind = "None"
                                                 THEN "None"
                                                 ELSE packet.packet.flags]
                    /\ c2s' = c2s
               [] client.pc # "fin_wait" /\ packet.kind = "None" ->
                    /\ client' = Continue(handle_timeout(client))
                    /\ c2s' = IF Retransmits(client)
                              THEN sendto(c2s, updated_packet(client))
                              ELSE c2s
               [] client.pc # "fin_wait" /\ packet.kind = "ValueError" ->
                    /\ client' = [client EXCEPT !.pc = "returned",
                                                !.result = "failure"]
                    /\ c2s' = c2s
               [] OTHER ->
                    \E received \in {packet.packet} :
                       /\ client' = Continue(handle_packet(client, received))
                       /\ c2s' = acknowledge_data(c2s, client, received)
    /\ UNCHANGED <<file, server, s2c, dups, timeouts_left>>

NextMalformed ==
    \/ SendAvailableData
    \/ FillWindow
    \/ ClientReceive
    \/ ClientTimeout
    \/ CloseConnection
    \/ ClientClosed
    \/ ServerReceive
    \/ ServerIdle
    \/ ServerReceiveSyn
    \/ ServerReceiveAck
    \/ ServerHandshakeTimeout
    \/ LoseToServer
    \/ LoseToClient
    \/ ServerReceiveDatagram
    \/ ClientReceiveDatagram

SpecMalformed == InitMalformed /\ [][NextMalformed]_vars

\* the codec on its own: a packet is built, send_packet encodes it
\* (protocol.py:143-144) and receive_packet decodes the datagram
\* (protocol.py:155-156). Sequence and acknowledgment numbers go up to the
\* largest integer of the model, 2^31 - 1
PacketInputs ==
    {Packet(seq_num, ack_num, flags, window, payload) :
        seq_num \in {0, 1, 100000, 16777216, 2147483647},
        ack_num \in {0, 255, 65536, 2147483647},
        flags \in PacketTypes,
        window \in {0, ClientWindow, 65535},
        payload \in {<<>>, <<255>>, FileData(MAX_PAYLOAD_SIZE)}}

InitCodec ==
    /\ \E isn_c \in ClientISNs, isn_s \in ServerISNs :
         /\ client = ClientEstablished(isn_c, isn_s, "file", 0, 1)
         /\ server = ServerEstablished(isn_c, isn_s, 0)
    /\ file = [pos |-> 0]
    /\ c2s = {}
    /\ s2c = {}
    /\ dups = 0
    /\ timeouts_left = 0
    /\ \E packet \in PacketInputs : wire = [pc |-> "built", packet |-> packet]

EncodePacket ==
    /\ wire.pc = "built"
    /\ wire' = [pc |-> "sent", packet |-> wire.packet,
                data |-> to_bytes(wire.packet)]
    /\ UNCHANGED <<client, file, server, c2s, s2c, dups, timeouts_left>>

DecodeDatagram ==
    /\ wire.pc = "sent"
    /\ wire' = [pc |-> "received", packet |-> wire.packet, data |-> wire.data,
                decoded |-> from_bytes(wire.data)]
    /\ UNCHANGED <<client, file, server, c2s, s2c, dups, timeouts_left>>

NextCodec ==
    \/ EncodePacket
    \/ DecodeDatagram

SpecCodec == InitCodec /\ [][NextCodec]_vars

(***************************************************************************)
(* Properties.                                                             *)
(***************************************************************************)
IsPrefix(a, b) == Len(a) <= Len(b) /\ a = SubSeq(b, 1, Len(a))

\* the sender is blocked in a bounded socket receive
AtSuspension == client.pc \in {"syn_sent", "recv", "drain", "fin_wait"}

\* the step processes the third consecutive duplicate ACK
ThirdDuplicateAck ==
    /\ client.congestion.duplicate_acks = 2
    /\ client'.congestion.duplicate_acks = 3

\* C1: the bytes the receiver has written are a prefix of the sender's input
\* stream, and when the send operation has returned success they are the
\* whole stream.
C1_DeliveredPrefix ==
    /\ IsPrefix(server.data_buffer, Stream)
    /\ server.total_bytes = Len(server.data_buffer)
    /\ client.result = "success" => server.data_buffer = Stream

\* a multi-segment transfer that needed a retransmission has returned success
C1_Witness ==
    /\ client.result = "success"
    /\ Len(Stream) > MaxFileSegs * MAX_PAYLOAD_SIZE
    /\ client.retransmissions > 0

\* C2: on fair channels the receiver eventually holds every byte of the
\* stream and the sender's loop has ended with base = next_seq_to_send.
C2_EventuallyDelivered ==
    <>(/\ server.data_buffer = Stream
       /\ client.pc \in {"returned", "fin_wait", "closed"}
       /\ client.base = client.next_seq_to_send)

\* C3: a timeout that finds the segment at base already retransmitted
\* MAX_RETRIES times ends the send operation with a failure result.
C3_GivesUp ==
    [][(ClientTimeout
          /\ client.base \in DOMAIN client.send_buffer
          /\ client.send_buffer[client.base].retries >= MAX_RETRIES)
        => (client'.result = "failure"
              /\ client'.pc \notin {"send", "fill", "recv", "drain"})]_vars

\* C4: at every suspension point base <= next_seq_to_send and every key of
\* send_buffer lies in [base, next_seq_to_send).
C4_SenderWindow ==
    AtSuspension =>
      /\ client.base <= client.next_seq_to_send
      /\ \A k \in DOMAIN client.send_buffer :
           client.base <= k /\ k < client.next_seq_to_send

\* the sender waits with base advanced by an ACK and segments outstanding
C4_Witness ==
    /\ client.pc \in {"recv", "drain"}
    /\ client.base > client.initial_sequence
    /\ client.send_buffer # EmptyMap

\* the payloads of send_buffer from key k on, following each entry to the key
\* at its end, up to next_seq_to_send; <<-1>> marks a gap
RECURSIVE Chain(_, _)
Chain(c, k) ==
    IF k = c.next_seq_to_send THEN <<>>
    ELSE IF k \notin DOMAIN c.send_buffer
              \/ Len(c.send_buffer[k].packet.payload) = 0
              \/ k > c.next_seq_to_send
    THEN <<-1>>
    ELSE c.send_buffer[k].packet.payload
           \o Chain(c, k + Len(c.send_buffer[k].packet.payload))

RECURSIVE ChainKeys(_, _)
ChainKeys(c, k) ==
    IF k \notin DOMAIN c.send_buffer \/ k >= c.next_seq_to_send
          \/ Len(c.send_buffer[k].packet.payload) = 0
    THEN {}
    ELSE {k} \cup ChainKeys(c, k + Len(c.send_buffer[k].packet.payload))

\* C5: at every suspension point the entries of send_buffer tile
\* [base, next_seq_to_send) in key order and their payloads are the
\* unacknowledged part of the stream sent so far.
C5_BufferTiles ==
    AtSuspension =>
      /\ ChainKeys(client, client.base) = DOMAIN client.send_buffer
      /\ Chain(client, client.base) =
           SubSeq(Stream, client.base - client.initial_sequence + 1,
                  client.next_seq_to_send - client.initial_sequence)
      /\ \A k \in DOMAIN client.send_buffer :
           client.send_buffer[k].packet.seq_num = k

\* the sender waits with two or more segments outstanding after an ACK
C5_Witness ==
    /\ client.pc \in {"recv", "drain"}
    /\ client.base > client.initial_sequence
    /\ Cardinality(DOMAIN client.send_buffer) >= 2

\* C6: every key of receive_buffer is above expected_seq_num.
C6_BufferAboveExpected ==
    \A k \in DOMAIN server.receive_buffer : k > server.expected_seq_num

\* C7: a new DATA segment is transmitted only while the packets in flight
\* are fewer than min(floor(cwnd), receiver_window, 128).
C7_WindowRespected ==
    [][client'.total_packets_sent > client.total_packets_sent
        => packets_in_flight(client)
             < get_window_size(client.congestion, client.receiver_window)]_vars

\* C8: after a timeout cwnd = 1, ssthresh = max(cwnd_before / 2, 2),
\* duplicate_acks = 0 and the sender is out of fast recovery.
C8_TimeoutResets ==
    [][ClientTimeout
        => /\ client'.congestion.cwnd = RatInt(1)
           /\ client'.congestion.ssthresh =
                RatMax(RatHalf(client.congestion.cwnd), RatInt(2))
           /\ ~RatLess(client'.congestion.ssthresh, RatInt(2))
           /\ client'.congestion.duplicate_acks = 0
           /\ ~client'.congestion.in_fast_recovery]_vars

\* C9: the third consecutive duplicate ACK leaves
\* ssthresh = max(cwnd_before / 2, 2), cwnd = ssthresh + 3 and the sender in
\* fast recovery.
C9_FastRecoveryEntry ==
    [][ThirdDuplicateAck
        => /\ client'.congestion.ssthresh =
                RatMax(RatHalf(client.congestion.cwnd), RatInt(2))
           /\ client'.congestion.cwnd =
                RatAdd(client'.congestion.ssthresh, RatInt(3))
           /\ client'.congestion.in_fast_recovery]_vars

\* the third duplicate ACK has just been processed
C9_Witness ==
    /\ client.congestion.duplicate_acks = 3
    /\ client.congestion.in_fast_recovery
    /\ client.base < client.next_seq_to_send

\* the cumulative ACKs the sender may be handed: an ACK number at the start of
\* the stream, at base, inside and at the end of every unacknowledged
\* segment, with a small or the full advertised window
AckNumbers(c) ==
    {c.initial_sequence, c.base, c.base + 1, c.congestion.last_ack}
      \cup {k + Len(c.send_buffer[k].packet.payload) : k \in DOMAIN c.send_buffer}

AckInputs(c) ==
    {Packet(0, a, "ACK", w, <<>>) : a \in AckNumbers(c), w \in {1, max_window_size}}

\* C10: the step that processes the third duplicate ACK while segments are
\* outstanding retransmits the segment at base and counts a retransmission.
C10_FastRetransmit ==
    [][(ThirdDuplicateAck /\ client.base < client.next_seq_to_send)
        => /\ client'.retransmissions = client.retransmissions + 1
           /\ client.base \in DOMAIN client.send_buffer
           /\ updated_packet(client) \in c2s']_vars

\* C11 as claimed: processing an ACK a second time right after the first
\* leaves every field of the sender unchanged except duplicate_acks.
C11_AckIdempotent ==
    \A A \in AckInputs(client) :
      LET c1 == process_ack(client, A)
            c2 == process_ack(c1, A)
        IN c2 = [c1 EXCEPT !.congestion.duplicate_acks =
                               c2.congestion.duplicate_acks]

\* C11 as amended: the second processing leaves base, next_seq_to_send,
\* send_buffer, receiver_window, last_ack and the RTT estimator unchanged and
\* adds one to duplicate_acks; cwnd, ssthresh and in_fast_recovery are
\* unchanged as well unless the second processing is the third consecutive
\* duplicate ACK or the sender is in fast recovery.
C11_AckIdempotentButWindow ==
    \A A \in AckInputs(client) :
      LET c1 == process_ack(client, A)
            c2 == process_ack(c1, A)
        IN /\ c2.base = c1.base
           /\ c2.next_seq_to_send = c1.next_seq_to_send
           /\ c2.send_buffer = c1.send_buffer
           /\ c2.receiver_window = c1.receiver_window
           /\ c2.congestion.last_ack = c1.congestion.last_ack
           /\ c2.rtt_estimator = c1.rtt_estimator
           /\ c2.congestion.duplicate_acks = c1.congestion.duplicate_acks + 1
           /\ (c1.congestion.duplicate_acks # 2 /\ ~c1.congestion.in_fast_recovery)
                => /\ c2.congestion.cwnd = c1.congestion.cwnd
                   /\ c2.congestion.ssthresh = c1.congestion.ssthresh
                   /\ c2.congestion.in_fast_recovery
                        = c1.congestion.in_fast_recovery

\* the sender has processed an ACK that advanced base and then an ACK with
\* the same number again
C11_Witness ==
    /\ client.congestion.duplicate_acks >= 1
    /\ client.congestion.last_ack = client.base
    /\ client.base > client.initial_sequence
    /\ client.rtt_estimator.measurements >= 1

\* C12: the datagram of a packet is 14 + len(payload) bytes long, and
\* decoding it gives a packet equal to the one encoded on seq_num, ack_num,
\* flags, window and payload.
C12_CodecRoundTrip ==
    /\ wire.pc \in {"sent", "received"}
         => Len(wire.data) = HEADER_SIZE + Len(wire.packet.payload)
    /\ wire.pc = "received"
         => /\ wire.decoded.kind = "packet"
            /\ wire.decoded.packet = wire.packet

\* a DATA packet with a full payload, the largest sequence number and the
\* largest window has been encoded and decoded
C12_Witness ==
    /\ wire.pc = "received"
    /\ wire.packet.flags = "DATA"
    /\ Len(wire.packet.payload) = MAX_PAYLOAD_SIZE
    /\ wire.packet.seq_num = 2147483647
    /\ wire.packet.window = 65535
    /\ Len(wire.data) = MAX_PACKET_SIZE

\* the step hands the datagram of another host to an endpoint
DatagramReceived == wire.pc = "sent" /\ wire'.pc = "received"

\* the type tag of a datagram of at least 14 bytes
TypeTag(data) == unpack_uint(SubSeq(data, 9, 12))

\* C13: a datagram shorter than 14 bytes that reaches an endpoint in the
\* steady state is dropped: the sender (window, congestion, retries, position
\* in its loop) and the receiver (expected_seq_num, receive_buffer, connection
\* status) are unchanged and nothing is transmitted.
C13_ShortDatagramDropped ==
    [][(DatagramReceived /\ Len(wire.data) < HEADER_SIZE)
        => /\ wire'.decoded.kind = "None"
           /\ client' = client
           /\ server' = server
           /\ c2s' = c2s
           /\ s2c' = s2c]_vars

\* C14: a datagram of at least 14 bytes with a type tag other than 0..3 is
\* rejected by the codec without an error and dropped: the endpoint's state
\* is unchanged and the transfer continues.
C14_UnknownTagDropped ==
    [][(DatagramReceived /\ Len(wire.data) >= HEADER_SIZE
          /\ TypeTag(wire.data) \notin 0..3)
        => /\ wire'.decoded.kind = "None"
           /\ client' = client
           /\ server' = server
           /\ c2s' = c2s
           /\ s2c' = s2c]_vars

\* establish_connection has returned
ClientConnected == client.pc \notin {"connect", "syn_sent", "failed"}

\* C15: after the handshake the client's sequence_number, base and
\* next_seq_to_send are ISN_c + 1, the sequence number of its SYN plus one,
\* and so is the server's expected_seq_num: the first DATA segment carries the
\* sequence number the server expects.
C15_PostHandshake ==
    /\ ClientConnected
         => /\ client.initial_sequence = client.syn_packet.seq_num + 1
            /\ client.total_packets_sent = 0
                 => /\ client.sequence_number = client.syn_packet.seq_num + 1
                    /\ client.base = client.syn_packet.seq_num + 1
                    /\ client.next_seq_to_send = client.syn_packet.seq_num + 1
            /\ \A k \in DOMAIN client.send_buffer :
                 k >= client.syn_packet.seq_num + 1
    /\ (ClientConnected /\ server.state = "established" /\ server.total_bytes = 0)
         => /\ server.expected_seq_num = client.syn_packet.seq_num + 1
            /\ client.total_packets_sent = 0
                 => client.sequence_number = server.expected_seq_num
            /\ \A p \in c2s :
                 (p.flags = "DATA" /\ p.seq_num = client.initial_sequence)
                   => p.seq_num = server.expected_seq_num

\* both handshakes have completed and the first DATA segment of a sender
\* with ISN 100000 is on its way to the server
C15_Witness ==
    /\ ClientConnected
    /\ server.state = "established"
    /\ server.total_bytes = 0
    /\ client.syn_packet.seq_num = 100000
    /\ \E p \in c2s : /\ p.flags = "DATA"
                       /\ p.seq_num = server.expected_seq_num
                       /\ p.seq_num = 100001

\* C16: when the wait of establish_connection ends and no SYN-typed reply
\* has reached the client, the handshake has failed; a client whose
\* handshake failed stays failed and has transmitted no DATA segment.
C16_HandshakeFailure ==
    [][/\ (client.pc = "syn_sent" /\ client'.pc # "syn_sent"
             /\ ~\E p \in s2c : p.flags = "SYN")
          => client'.pc = "failed"
       /\ client.pc = "failed" => client'.pc = "failed"
       /\ client'.pc = "failed"
          => /\ client'.result = "handshake_failed"
             /\ client'.total_packets_sent = 0
             /\ client'.send_buffer = EmptyMap
             /\ \A p \in c2s' : p.flags # "DATA"]_vars

\* the SYN was lost and the handshake has failed
C16_Witness ==
    /\ client.pc = "failed"
    /\ client.result = "handshake_failed"
    /\ server.state = "listen"
    /\ server.expected_seq_num = 0
    /\ c2s = {}

\* C17: once establish_connection has failed the client's socket is closed.
C17_FailureClosesSocket ==
    client.pc = "failed" => client.sock = "closed"

\* the end of a transfer of nothing: the handshake is complete, no DATA
\* segment was sent, the client's FIN was answered by the server's FIN and both
\* ends have finished, the server with zero bytes delivered
ZeroLengthDone ==
    /\ ClientConnected
    /\ client.total_packets_sent = 0
    /\ client.send_buffer = EmptyMap
    /\ client.pc = "closed"
    /\ client.sock = "closed"
    /\ client.fin_ack = "FIN"
    /\ server.state = "closed"
    /\ server.total_bytes = 0
    /\ server.data_buffer = <<>>
    /\ \A p \in c2s : p.flags # "DATA"

\* C18: for an empty stream the client completes the handshake, sends no DATA
\* segment, sends FIN and closes, and the server answers the FIN and finishes
\* with zero bytes delivered.
C18_ZeroLength == (client.total = 0) ~> ZeroLengthDone

\* an empty file has been transferred
C18_Witness == client.total = 0 /\ client.mode = "file" /\ ZeroLengthDone

\* the DATA segments the sender has made and not yet dropped
DataSegments ==
    {client.send_buffer[k].packet : k \in DOMAIN client.send_buffer}
      \cup {p \in c2s : p.flags = "DATA"}

\* ceil(n / MAX_PAYLOAD_SIZE)
Segments(n) == (n + MAX_PAYLOAD_SIZE - 1) \div MAX_PAYLOAD_SIZE

SendFinished == client.pc \in {"returned", "fin_wait", "closed"}

\* C19: with no loss and no timeout a stream of N > 0 bytes goes out as
\* exactly ceil(N / 1010) DATA segments of 1010 bytes each, except a possibly
\* shorter last one, with sequence numbers ISN_c + 1, ISN_c + 1 + 1010, ...,
\* and the retransmission counter stays 0; a stream of exactly 1010 bytes is one
\* DATA segment followed by the teardown.
C19_Segmentation ==
    (ClientConnected /\ client.total > 0)
      => LET sent == client.sequence_number - client.initial_sequence
         IN /\ client.retransmissions = 0
            /\ client.initial_sequence = client.syn_packet.seq_num + 1
            /\ sent <= client.total
            /\ client.total_packets_sent = Segments(sent)
            /\ SendFinished
                 => /\ sent = client.total
                    /\ client.total_packets_sent = Segments(client.total)
            /\ (SendFinished /\ client.total = MAX_PAYLOAD_SIZE)
                 => client.total_packets_sent = 1
            /\ \A p \in DataSegments :
                 LET offset == p.seq_num - client.initial_sequence
                 IN /\ offset % MAX_PAYLOAD_SIZE = 0
                    /\ offset < sent
                    /\ Len(p.payload)
                         = Min(MAX_PAYLOAD_SIZE, client.total - offset)
            /\ \A k \in DOMAIN client.send_buffer :
                 /\ client.send_buffer[k].packet.seq_num = k
                 /\ client.send_buffer[k].retries = 0

\* a file of two full segments and one byte has gone out as three segments,
\* the last of one byte still unacknowledged, and was delivered whole
C19_Witness ==
    /\ client.mode = "file"
    /\ client.total = 2 * MAX_PAYLOAD_SIZE + 1
    /\ client.total_packets_sent = 3
    /\ client.retransmissions = 0
    /\ \E k \in DOMAIN client.send_buffer :
         /\ k = client.syn_packet.seq_num + 1 + 2 * MAX_PAYLOAD_SIZE
         /\ Len(client.send_buffer[k].packet.payload) = 1
    /\ server.total_bytes = client.total

\* a stream of exactly 1010 bytes went out as one segment and the connection
\* was torn down
C19_OneSegmentThenTeardown ==
    /\ client.total = MAX_PAYLOAD_SIZE
    /\ client.total_packets_sent = 1
    /\ client.pc = "closed"
    /\ client.fin_ack = "FIN"
    /\ server.state = "closed"
    /\ server.total_bytes = MAX_PAYLOAD_SIZE

\* C20: when the receiver processes a DATA packet whose seq equals
\* expected_seq_num it delivers the payload and every buffered segment that
\* continues it, so that afterwards no key of receive_buffer equals
\* expected_seq_num, and it emits one ACK whose ack number is the final
\* expected_seq_num.
C20_InOrderPath ==
    [][server'.total_bytes > server.total_bytes
        => /\ server'.expected_seq_num - server.expected_seq_num
                = server'.total_bytes - server.total_bytes
           /\ Len(server'.data_buffer) - Len(server.data_buffer)
                = server'.total_bytes - server.total_bytes
           /\ \A k \in DOMAIN server'.receive_buffer :
                k # server'.expected_seq_num
           /\ Cardinality(s2c) < MaxChan
                => /\ AckPacket(server') \in s2c'
                   /\ s2c' \ s2c \subseteq {AckPacket(server')}]_vars

\* the step is the receiver handling the DATA packet with the draw r of its
\* loss simulation (server.py:137-154)
ServerHandlesData(packet, r) ==
    /\ server.state = "established"
    /\ packet \in c2s
    /\ packet.flags = "DATA"
    /\ c2s' \in {c2s, c2s \ {packet}}
    /\ server' = handle_data_packet([server EXCEPT !.client_window = packet.window],
                                    packet, r)
    /\ s2c' = sendto(s2c, AckPacket(server'))
    /\ UNCHANGED <<client, file, timeouts_left, wire>>

\* the step emits into s2c one ACK with the acknowledgment number ack_num, or
\* loses it to a full channel
EmitsOneAck(ack_num) ==
    /\ \A p \in s2c' \ s2c : p.flags = "ACK" /\ p.ack_num = ack_num
    /\ Cardinality(s2c' \ s2c) <= 1
    /\ Cardinality(s2c) < MaxChan
         => \E p \in s2c' : p.flags = "ACK" /\ p.ack_num = ack_num

\* C21: processing a DATA packet whose seq is not expected_seq_num changes
\* neither expected_seq_num nor the delivered stream; a packet above
\* expected_seq_num is held in receive_buffer under its seq, a packet below is
\* discarded and the buffer is unchanged; one ACK with ack = expected_seq_num
\* is emitted.
C21_OutOfOrderPath ==
    [][\A packet \in c2s, r \in 0..(LossGrid - 1) :
         (/\ ServerHandlesData(packet, r)
          /\ ~SimulatedLoss(server, r)
          /\ packet.seq_num # server.expected_seq_num)
         => /\ server'.expected_seq_num = server.expected_seq_num
            /\ server'.data_buffer = server.data_buffer
            /\ server'.total_bytes = server.total_bytes
            /\ packet.seq_num > server.expected_seq_num
                 => /\ DOMAIN server'.receive_buffer
                         = DOMAIN server.receive_buffer \cup {packet.seq_num}
                    /\ server'.receive_buffer[packet.seq_num] = packet
                    /\ \A k \in DOMAIN server.receive_buffer \ {packet.seq_num} :
                         server'.receive_buffer[k] = server.receive_buffer[k]
            /\ packet.seq_num < server.expected_seq_num
                 => server'.receive_buffer = server.receive_buffer
            /\ EmitsOneAck(server.expected_seq_num)]_vars

\* the second segment arrived before the first: it is held, nothing was
\* delivered, and the ACK for the first byte of the stream is on its way
C21_Witness ==
    /\ server.state = "established"
    /\ server.total_bytes = 0
    /\ server.expected_seq_num = client.initial_sequence
    /\ \E k \in DOMAIN server.receive_buffer :
         /\ k > server.expected_seq_num
         /\ server.receive_buffer[k].seq_num = k
    /\ AckPacket(server) \in s2c

\* C22: every ACK the receiver emits carries the window
\* max(1, floor((64 * 1010 - B) / 1010)), B being the payload bytes held in
\* receive_buffer once the packet that triggered the ACK has been processed;
\* the window is in 1..64.
C22_AdvertisedWindow ==
    [][\A ack \in s2c' \ s2c :
         ack.flags = "ACK"
           => LET B == PayloadBytes(server'.receive_buffer,
                                    DOMAIN server'.receive_buffer)
              IN /\ (64 * 1010 - B) >= 1010
                      => ack.window = (64 * 1010 - B) \div 1010
                 /\ (64 * 1010 - B) < 1010 => ack.window = 1
                 /\ ack.window \in 1..64]_vars

\* an ACK advertising 62 segments is on its way while two segments are held
\* in receive_buffer
C22_Witness ==
    /\ Cardinality(DOMAIN server.receive_buffer) = 2
    /\ \E ack \in s2c : /\ ack.flags = "ACK"
                         /\ ack.window = 62
                         /\ ack.ack_num = server.expected_seq_num

\* the step processes an ACK whose number is above last_ack
NewAck == client'.congestion.last_ack > client.congestion.last_ack

\* C23: an ACK with a number a above last_ack sets duplicate_acks to 0,
\* in_fast_recovery to false and last_ack to a, adds 1 to cwnd when
\* cwnd < ssthresh held before and 1/cwnd otherwise, and leaves ssthresh
\* unchanged.
C23_NewAckGrowth ==
    [][NewAck
        => LET before == client.congestion
               after == client'.congestion
           IN /\ after.duplicate_acks = 0
              /\ ~after.in_fast_recovery
              /\ \E ack \in s2c : ack.flags = "ACK" /\ ack.ack_num = after.last_ack
              /\ RatLess(before.cwnd, before.ssthresh)
                   => after.cwnd = <<BigAdd(before.cwnd[1], before.cwnd[2]),
                                     before.cwnd[2]>>
              /\ ~RatLess(before.cwnd, before.ssthresh)
                   => BigMul(after.cwnd[1],
                             BigMul(before.cwnd[1], before.cwnd[2]))
                        = BigMul(BigAdd(BigMul(before.cwnd[1], before.cwnd[1]),
                                        BigMul(before.cwnd[2], before.cwnd[2])),
                                 after.cwnd[2])
              /\ after.ssthresh = before.ssthresh]_vars

\* a new ACK arrived in congestion avoidance, after a timeout had set ssthresh
\* below cwnd: cwnd is 4 + 1/4
C23_Witness ==
    /\ client.congestion.cwnd = <<Big(17), Big(4)>>
    /\ client.congestion.last_ack > client.initial_sequence
    /\ client.congestion.duplicate_acks = 0
    /\ RatLess(client.congestion.ssthresh, client.congestion.cwnd)

\* a new ACK arrived in slow start and left fast recovery
C23_SlowStartWitness ==
    /\ client.congestion.cwnd = <<Big(5), Big(1)>>
    /\ client.congestion.last_ack > client.initial_sequence
    /\ client.congestion.ssthresh = <<Big(64), Big(1)>>

\* the step is the sender handling the packet in _handle_acknowledgments
\* (client.py:376-395)
ClientHandles(packet) ==
    /\ client.pc \in {"recv", "drain"}
    /\ packet \in s2c
    /\ s2c' \in {s2c, s2c \ {packet}}
    /\ client' = Continue(handle_packet(client, packet))
    /\ c2s' = acknowledge_data(c2s, client, packet)
    /\ UNCHANGED <<file, server, timeouts_left, wire>>

\* C24: an ACK whose number is below last_ack changes none of duplicate_acks,
\* cwnd, ssthresh, in_fast_recovery, base and send_buffer; duplicate_acks
\* grows only on an ACK whose number equals last_ack.
C24_StaleAckAbsorbed ==
    [][\A ack \in s2c :
         (/\ ClientHandles(ack)
          /\ ack.flags = "ACK"
          /\ ack.ack_num < client.congestion.last_ack)
         => /\ client'.congestion.duplicate_acks
                 = client.congestion.duplicate_acks
            /\ client'.congestion.cwnd = client.congestion.cwnd
            /\ client'.congestion.ssthresh = client.congestion.ssthresh
            /\ client'.congestion.in_fast_recovery
                 = client.congestion.in_fast_recovery
            /\ client'.base = client.base
            /\ client'.send_buffer = client.send_buffer]_vars

\* C25: a timeout that finds base in send_buffer with fewer than 10 retries
\* retransmits one segment, the one at base, with the sequence number,
\* acknowledgment number, type and payload it was sent with, adds one to the
\* retry count of that entry and leaves base, next_seq_to_send and every
\* other entry of send_buffer unchanged.
C25_TimeoutRetransmission ==
    [][(/\ ClientTimeout
        /\ client.base \in DOMAIN client.send_buffer
        /\ client.send_buffer[client.base].retries < 10)
       => LET sent == client.send_buffer[client.base]
              kept == client'.send_buffer[client.base]
              offset == client.base - client.initial_sequence
          IN /\ kept.packet.seq_num = client.base
             /\ kept.packet.seq_num = sent.packet.seq_num
             /\ kept.packet.ack_num = sent.packet.ack_num
             /\ kept.packet.flags = "DATA"
             /\ kept.packet.payload = sent.packet.payload
             /\ kept.packet.payload
                  = SubSeq(Stream, offset + 1,
                           offset + Len(kept.packet.payload))
             /\ kept.retries = sent.retries + 1
             /\ c2s' \ c2s \subseteq {kept.packet}
             /\ Cardinality(c2s) < MaxChan => kept.packet \in c2s'
             /\ client'.retransmissions = client.retransmissions + 1
             /\ client'.base = client.base
             /\ client'.next_seq_to_send = client.next_seq_to_send
             /\ client'.sequence_number = client.sequence_number
             /\ DOMAIN client'.send_buffer = DOMAIN client.send_buffer
             /\ \A k \in DOMAIN client.send_buffer \ {client.base} :
                  client'.send_buffer[k] = client.send_buffer[k]]_vars

\* the segment at base has been retransmitted nine times and once more, while
\* the segment after it was sent once
C25_Witness ==
    /\ client.base \in DOMAIN client.send_buffer
    /\ client.send_buffer[client.base].retries = 10
    /\ client.retransmissions = 10
    /\ \E k \in DOMAIN client.send_buffer :
         k > client.base /\ client.send_buffer[k].retries = 0
    /\ \E p \in c2s : p.flags = "DATA" /\ p.seq_num = client.base

\* the step takes an RTT sample
RttSampled ==
    client'.rtt_estimator.measurements > client.rtt_estimator.measurements

\* C26: the RTT estimator is updated at most once per ACK, with the segment
\* that was at base, and never with a segment that has been retransmitted.
C26_KarnsRule ==
    [][RttSampled
        => /\ client'.rtt_estimator.measurements
                = client.rtt_estimator.measurements + 1
           /\ client.base \in DOMAIN client.send_buffer
           /\ client.base \notin DOMAIN client'.send_buffer
           /\ client.send_buffer[client.base].retries = 0]_vars

\* C27: once an endpoint has sent a SYN or a FIN its sequence number is above
\* the seq of that segment, so a later segment of the endpoint carries a
\* greater seq: the server's FIN and ACKs do not reuse the seq of its SYN
\* reply, nor the client's ACK the seq of its SYN.
C27_ControlConsumesSeq ==
    /\ \A p \in s2c :
         /\ p.flags \in {"SYN", "FIN"} => p.seq_num < server.sequence_number
         /\ \A q \in s2c : (p.flags = "SYN" /\ q.flags # "SYN")
                              => p.seq_num < q.seq_num
    /\ \A p \in c2s :
         /\ (p.flags = "SYN" /\ ClientConnected)
              => p.seq_num < client.sequence_number
         /\ (p.flags = "FIN" /\ client.pc = "closed")
              => p.seq_num < client.sequence_number
         /\ \A q \in c2s : (p.flags = "SYN" /\ q.flags # "SYN")
                              => p.seq_num < q.seq_num

\* the step is the receiver handling the FIN in its data-transfer loop
\* (server.py:137-161)
ServerHandlesFin(fin) ==
    /\ server.state = "established"
    /\ fin \in c2s
    /\ fin.flags = "FIN"
    /\ c2s' \in {c2s, c2s \ {fin}}
    /\ LET window_size == update_window_size(server.receive_buffer)
       IN /\ server' = [server EXCEPT !.client_window = fin.window,
                                      !.window_size = window_size,
                                      !.state = "closed"]
          /\ s2c' = sendto(s2c, fin_reply(server, fin, window_size))
    /\ UNCHANGED <<client, file, timeouts_left, wire>>

\* C28: the server, on a FIN of its peer during data transfer, emits one
\* FIN-typed segment with ack = FIN.seq + 1 and leaves the data-transfer loop;
\* from then on it delivers no byte and emits nothing, until a SYN opens the
\* next connection.
C28_TeardownReply ==
    [][/\ \A fin \in c2s :
            ServerHandlesFin(fin)
              => /\ \A p \in s2c' \ s2c :
                      p.flags = "FIN" /\ p.ack_num = fin.seq_num + 1
                 /\ Cardinality(s2c' \ s2c) <= 1
                 /\ Cardinality(s2c) < MaxChan
                      => \E p \in s2c' :
                           p.flags = "FIN" /\ p.ack_num = fin.seq_num + 1
                 /\ server'.state = "closed"
                 /\ server'.data_buffer = server.data_buffer
                 /\ server'.total_bytes = server.total_bytes
       /\ server.state = "closed"
            => \/ /\ server' = server
                  /\ s2c' \subseteq s2c
               \/ /\ server'.state = "syn_received"
                  /\ server'.data_buffer = server.data_buffer
                  /\ server'.total_bytes = server.total_bytes]_vars

\* the server has answered the FIN that followed a complete transfer while a
\* retransmitted DATA segment is still on its way to it
C28_Witness ==
    /\ server.state = "closed"
    /\ server.data_buffer = Stream
    /\ Len(Stream) > 0
    /\ \E p \in s2c : p.flags = "FIN" /\ p.ack_num = client.sequence_number + 1
    /\ \E p \in c2s : p.flags = "DATA"

\* C29: a datagram that reaches the server during data transfer from an
\* address other than its peer's is dropped: expected_seq_num, receive_buffer,
\* the delivered stream, client_window and the connection status are
\* unchanged and no ACK or FIN is emitted.
C29_ForeignDatagramDropped ==
    [][(DatagramReceived /\ wire.dst = "server")
        => /\ server'.expected_seq_num = server.expected_seq_num
           /\ server'.receive_buffer = server.receive_buffer
           /\ server'.data_buffer = server.data_buffer
           /\ server'.client_window = server.client_window
           /\ server'.state = server.state
           /\ s2c' = s2c]_vars

\* C30: a packet of an unexpected type that an endpoint takes from the
\* network during the handshake is ignored and the endpoint keeps waiting:
\* a non-SYN packet at the client awaiting the SYN reply, a non-SYN packet at
\* the listening server, a non-ACK packet at the server awaiting the final ACK.
C30_UnexpectedTypeIgnored ==
    [][/\ \A p \in s2c \ s2c' :
            (client.pc = "syn_sent" /\ p.flags # "SYN")
              => client'.pc = "syn_sent"
       /\ \A p \in c2s \ c2s' :
            (server.state = "listen" /\ p.flags # "SYN")
              => server' = server
       /\ \A p \in c2s \ c2s' :
            (server.state = "syn_received" /\ p.flags # "ACK")
              => server'.state = "syn_received"]_vars

\* C31: the server delivers no DATA payload and emits no data ACK before it
\* has received a SYN and then an ACK, and the client transmits no DATA
\* segment before it has received the SYN-typed reply of the server.
C31_LifecycleOrdering ==
    [][/\ (\/ server'.total_bytes > server.total_bytes
           \/ Len(server'.data_buffer) > Len(server.data_buffer)
           \/ server'.receive_buffer # server.receive_buffer
           \/ \E p \in s2c' \ s2c : p.flags = "ACK")
          => /\ server.state = "established"
             /\ server.ack_packet = "ACK"
             /\ server.expected_seq_num > client.syn_packet.seq_num
       /\ (\/ client'.total_packets_sent > client.total_packets_sent
           \/ \E p \in c2s' \ c2s : p.flags = "DATA")
          => /\ ClientConnected
             /\ client.expected_seq_num = server.sequence_number + 1
             /\ client.initial_sequence = client.syn_packet.seq_num + 1]_vars

\* after the three-way handshake the server has delivered the byte of a
\* one-byte stream and its ACK is on the way
C31_Witness ==
    /\ server.ack_packet = "ACK"
    /\ server.state = "established"
    /\ server.total_bytes = 1
    /\ client.total_packets_sent = 1
    /\ \E p \in s2c : p.flags = "ACK" /\ p.ack_num = server.expected_seq_num

\* C32: in every step the sender's base and next_seq_to_send, the congestion
\* controller's last_ack and the receiver's expected_seq_num do not decrease.
C32_MonotonicProgress ==
    [][/\ client'.base >= client.base
       /\ client'.next_seq_to_send >= client.next_seq_to_send
       /\ client'.congestion.last_ack >= client.congestion.last_ack
       /\ server'.expected_seq_num >= server.expected_seq_num]_vars

\* an older cumulative ACK was processed after a newer one had moved base to
\* the end of the second segment
C32_Witness ==
    /\ client.base >= client.initial_sequence + 2 * MAX_PAYLOAD_SIZE
    /\ client.congestion.last_ack = client.base
    /\ client.congestion.duplicate_acks >= 1
    /\ server.expected_seq_num >= client.base

\* C33: after the handshake client.base <= server.expected_seq_num
\* <= client.next_seq_to_send: the receiver acknowledges no byte that was not
\* sent and the sender takes no byte for acknowledged that the receiver has
\* not delivered.
C33_CrossEndpointWindow ==
    (ClientConnected /\ server.state \in {"established", "closed"})
      => /\ client.base <= server.expected_seq_num
         /\ server.expected_seq_num <= client.next_seq_to_send
         /\ \A ack \in s2c : ack.flags = "ACK"
                                => ack.ack_num <= server.expected_seq_num

\* the receiver has delivered a segment the sender has not yet seen
\* acknowledged, and another segment is outstanding beyond it
C33_Witness ==
    /\ server.state = "established"
    /\ client.base > client.initial_sequence
    /\ client.base < server.expected_seq_num
    /\ server.expected_seq_num < client.next_seq_to_send

\* C34: an ACK the congestion controller takes for new (it resets
\* duplicate_acks and grows cwnd) also advances base, and an ACK whose number
\* equals base, the first ACK after the handshake included, is counted as a
\* duplicate.
C34_NewAckAdvancesBase ==
    [][/\ NewAck => client'.base > client.base
       /\ \A ack \in s2c :
            (/\ ClientHandles(ack)
             /\ ack.flags = "ACK"
             /\ ack.ack_num = client.base)
            => client'.congestion.duplicate_acks
                 = client.congestion.duplicate_acks + 1]_vars

\* C35: in every state in_fast_recovery implies duplicate_acks >= 3,
\* ssthresh >= 2 and cwnd >= 1.
C35_CongestionConsistency ==
    client.congestion.in_fast_recovery
      => /\ client.congestion.duplicate_acks >= 3
         /\ ~RatLess(client.congestion.ssthresh, RatInt(2))
         /\ ~RatLess(client.congestion.cwnd, RatInt(1))

\* a fourth duplicate ACK arrived during fast recovery and inflated cwnd
C35_Witness ==
    /\ client.congestion.in_fast_recovery
    /\ client.congestion.duplicate_acks >= 4
    /\ RatLess(RatAdd(client.congestion.ssthresh, RatInt(3)),
               client.congestion.cwnd)

\* C36: every entry of send_buffer has a retry count in 0..10 and an entry
\* with a retry count above 0 has the key base, so no segment is transmitted
\* more than 11 times.
C36_RetryCount ==
    /\ \A k \in DOMAIN client.send_buffer :
         /\ client.send_buffer[k].retries \in 0..10
         /\ client.send_buffer[k].retries > 0 => k = client.base
    /\ client.base = client.initial_sequence => client.retransmissions <= 10

\* the first segment has been transmitted 11 times while the second segment
\* waits behind it with no retry
C36_Witness ==
    /\ client.base = client.initial_sequence
    /\ client.base \in DOMAIN client.send_buffer
    /\ client.send_buffer[client.base].retries = 10
    /\ client.pc = "drain"
    /\ client.congestion.ssthresh = RatInt(2)
    /\ Cardinality(DOMAIN client.send_buffer) = 2

\* C37: once the client has completed establish_connection the server
\* eventually leaves wait_for_connection established, also when handshake
\* datagrams are lost or duplicated; the client is not left sending DATA to a
\* server that waits for a SYN.
C37_HandshakeAgreement ==
    ClientConnected ~> (server.state \in {"established", "closed"})

\* C38: the client transmits its FIN only when base = next_seq_to_send, so
\* the server, when it processes the FIN, has delivered the whole stream the
\* client sent.
C38_FinAfterAllAcked ==
    [][/\ (\E p \in c2s' \ c2s : p.flags = "FIN")
            => client.base = client.next_seq_to_send
       /\ \A fin \in c2s :
            ServerHandlesFin(fin)
              => /\ server.expected_seq_num = fin.seq_num
                 /\ server.total_bytes = fin.seq_num - client.initial_sequence
                 /\ server.data_buffer
                      = SubSeq(Stream, 1, fin.seq_num - client.initial_sequence)]_vars

\* C39: whenever expected_seq_num is at or beyond the end of every segment
\* held in receive_buffer, receive_buffer is empty and the next ACK
\* advertises the full 64 segments.
C39_NoReceiveBufferLeak ==
    (\A k \in DOMAIN server.receive_buffer :
        k + Len(server.receive_buffer[k].payload) <= server.expected_seq_num)
      => /\ server.receive_buffer = EmptyMap
         /\ update_window_size(server.receive_buffer) = max_window_size

====
